---- MODULE Spec2Model ----
(***************************************************************************)
(* The Solana debug adapter: SolanaDebugSession (the DAP session and its   *)
(* bridge lldbRun into the embedded LLDB engine) and SolanaRuntime.        *)
(*                                                                         *)
(* JavaScript runs one synchronous segment at a time; every `await` ends a *)
(* segment.  Each action below is one such segment of one handler, so the  *)
(* interleavings of the model are the interleavings of the event loop.     *)
(***************************************************************************)
EXTENDS Integers, Sequences, FiniteSets, TLC

\* Number of debugging requests the editor sends in one run.
MaxReqs == 3

VARIABLES
    lldb,            \* SolanaRuntime.lldb: "undefined" until lldbModule() resolved
    initPc,          \* position of initializeRequest / initLLDB
    initLog,         \* startup steps completed so far, in order
    isRunningLldb,   \* SolanaDebugSession._isRunningLldb
    req,             \* the debugging requests: kind, position, responses, event
    timers,          \* pending _sleep(10) timers, in expiry order
    events,          \* pending runtime.sendEvent emits (setTimeout 0), in order
    inflight,        \* callers whose engine call (ccall) has not returned
    hung,            \* engine calls that never return, each with the number of
                     \* requests that had come in when it stopped answering
    heap,            \* buffers allocated in engine memory and not yet freed
    launchPc,        \* position of launchRequest
    launchArgs,      \* arguments of the launch request
    waiters,         \* _configurationDone.waiters (await-notify Subject)
    woke,            \* what resolved the launch's wait: "none", "notify", "timeout"
    cfgDone,         \* configurationDone requests answered so far
    sent,            \* launch-related messages sent to the editor, in order
    breakPoints,     \* SolanaRuntime._breakPoints: file path -> list of breakpoints
    breakpointId,    \* SolanaRuntime._breakpointId
    calls,           \* the setBreakPoint calls: arguments, position, breakpoint
    changed,         \* BreakpointEvents ('changed') sent to the editor, in order
    ret,             \* the clearBreakPoint or clearBreakpoints call just made:
                     \* arguments, result, and the store it found; "none" once
                     \* setBreakPoint was called or resumed
    arg,             \* arguments of the handler or function under study
    res              \* what it produced: the message or path it sent

vars == <<lldb, initPc, initLog, isRunningLldb, req, timers, events, inflight,
          hung, heap, launchPc, launchArgs, waiters, woke, cfgDone, sent,
          breakPoints, breakpointId, calls, changed, ret, arg, res>>

Reqs == 1..MaxReqs

\* Caller id of initLLDB's own engine calls.
InitCaller == 0

\* Requests that go to the engine through lldbRun.
BridgeKinds == {"setBreakpoints", "source", "stackTrace", "scopes", "variables"}

\* Requests that go to the engine through SolanaRuntime methods.
StepKinds == {"continue", "next", "stepIn", "stepOut"}

\* A request slot: kind of the request, position of its handler, payload the
\* engine returned, exception that ended the handler, responses sent, stopped
\* event, and whether lldbRun found the bridge busy when the request came in.
NoReq == [kind |-> "none", pc |-> "new", out |-> "none", err |-> "none", resp |-> <<>>,
          ev |-> "none", waited |-> FALSE]

\* The editor's project root, hardcoded in the session's stack-trace rewrite.
projectPath == "/home/wj/temp/test_theia/debug-test/code/"

\* Source files the editor sets breakpoints in.
Files == {projectPath \o "src/lib.rs", projectPath \o "sdk/program/src/pubkey.rs"}

\* Highest line number the editor sets a breakpoint on.
MaxLine == 2

Lines == 1..MaxLine

\* Number of setBreakPoint calls in one run.
MaxCalls == 2

Calls == 1..MaxCalls

\* A setBreakPoint call: its arguments, the position of the call, the path it
\* gave the engine and the id of the breakpoint it created (0: none yet).
NoCall == [path |-> "", line |-> 0, pc |-> "new", lldbPath |-> "", id |-> 0]

\* JavaScript values: `undefined`, a string, a number.
undefined == [type |-> "undefined"]
Str(s) == [type |-> "string", val |-> s]
Num(n) == [type |-> "number", val |-> n]

\* No handler or function applied yet.
NoArg == [fn |-> "none"]
NoRes == [fn |-> "none"]

SessionInit ==
    /\ lldb = "undefined"
    /\ initPc = "idle"
    /\ initLog = <<>>
    /\ isRunningLldb = FALSE
    /\ req = [r \in Reqs |-> NoReq]
    /\ timers = <<>>
    /\ events = <<>>
    /\ inflight = {}
    /\ hung = {}
    /\ heap = {}
    /\ launchPc = "idle"
    /\ launchArgs = [stopOnEntry |-> "unspecified"]
    /\ waiters = 0
    /\ woke = "none"
    /\ cfgDone = 0
    /\ sent = <<>>
    /\ breakPoints = <<>>
    /\ breakpointId = 1
    /\ calls = [c \in Calls |-> NoCall]
    /\ changed = <<>>
    /\ ret = [op |-> "none"]

Init ==
    /\ SessionInit
    /\ arg = NoArg
    /\ res = NoRes

storeVars == <<breakPoints, breakpointId, calls, changed, ret>>
pureVars == <<arg, res>>
launchVars == <<launchPc, launchArgs, waiters, woke, cfgDone, sent>>
initVars == <<lldb, initPc, initLog>>

(***************************************************************************)
(* The event loop.  A continuation whose awaited value is already there is *)
(* a microtask: it runs before any timer callback and before the           *)
(* completion of any input or output, engine calls included.  Requests of  *)
(* the editor may be dispatched at any time, several in one turn of the    *)
(* loop.                                                                   *)
(***************************************************************************)

\* Positions of a request handler whose awaited value is already there.
MicrotaskPcs == {"rx", "written", "returned", "decoded", "freeRx", "freeTx", "resumed"}

MicrotaskPending ==
    \/ \E r \in Reqs : req[r].pc \in MicrotaskPcs
    \/ initPc = "ended"
    \/ launchPc \in {"woken", "started"}

(***************************************************************************)
(* Startup: initializeRequest awaits SolanaRuntime.initLLDB, whose steps   *)
(* are awaited one after another.                                          *)
(***************************************************************************)

\* The engine can be called once runtime.lldb is assigned.
EngineReady == lldb = "ready"

\* The startup steps of initLLDB in program order.
InitSteps == <<"module", "readFile", "writeFile", "create_target", "target list",
               "gdb-remote 9007">>

\* The steps of initLLDB that are engine calls (lldb.ccall).
InitEngineSteps == {"create_target", "target list", "gdb-remote 9007"}

StepIndex(s) == CHOOSE i \in 1..Len(InitSteps) : InitSteps[i] = s

\* What initLLDB awaits after step s resolved; "ended" when it returns.
NextInitStep(s) ==
    IF StepIndex(s) = Len(InitSteps) THEN "ended" ELSE InitSteps[StepIndex(s) + 1]

\* initializeRequest up to its first await: initLLDB calls lldbModule().
initializeRequest ==
    /\ initPc = "idle"
    /\ initPc' = "module"
    /\ UNCHANGED <<lldb, initLog, isRunningLldb, req, timers, events, inflight,
                   hung, heap>>
    /\ UNCHANGED launchVars
    /\ UNCHANGED <<storeVars, pureVars>>

\* A step of initLLDB that is not an engine call resolves; the continuation
\* assigns this.lldb after the module loaded and starts the next step.
initLLDB_step ==
    /\ initPc \in {"module", "readFile", "writeFile"}
    /\ ~MicrotaskPending
    /\ lldb' = "ready"
    /\ initLog' = Append(initLog, initPc)
    /\ initPc' = NextInitStep(initPc)
    /\ inflight' = IF NextInitStep(initPc) \in InitEngineSteps
                   THEN inflight \cup {InitCaller} ELSE inflight
    /\ UNCHANGED <<isRunningLldb, req, timers, events, hung, heap>>
    /\ UNCHANGED launchVars
    /\ UNCHANGED <<storeVars, pureVars>>

\* An engine call of initLLDB returns; the continuation starts the next one,
\* or initLLDB returns.
initLLDB_ccall ==
    /\ initPc \in InitEngineSteps
    /\ InitCaller \in inflight
    /\ ~MicrotaskPending
    /\ initLog' = Append(initLog, initPc)
    /\ initPc' = NextInitStep(initPc)
    /\ inflight' = IF NextInitStep(initPc) \in InitEngineSteps
                   THEN inflight ELSE inflight \ {InitCaller}
    /\ UNCHANGED <<lldb, isRunningLldb, req, timers, events, hung, heap>>
    /\ UNCHANGED launchVars
    /\ UNCHANGED <<storeVars, pureVars>>

\* initializeRequest after `await initLLDB()`: the response, then the
\* initialized event.
initializeRequest_respond ==
    /\ initPc = "ended"
    /\ initPc' = "done"
    /\ initLog' = initLog \o <<"response", "initialized">>
    /\ UNCHANGED <<lldb, isRunningLldb, req, timers, events, inflight, hung, heap>>
    /\ UNCHANGED launchVars
    /\ UNCHANGED <<storeVars, pureVars>>

(***************************************************************************)
(* The engine bridge: SolanaDebugSession.lldbRun.                          *)
(***************************************************************************)

\* A request slot is used in the order the editor sends the requests, so a
\* smaller slot was submitted earlier.
NextSlot(r) == req[r].pc = "new" /\ \A q \in Reqs : q < r => req[q].pc # "new"

\* The wait loop left out: lldbRun never finds the bridge busy.
WaitLoopNeverBusy == FALSE

\* The condition of lldbRun's wait loop.
WaitLoopBusy == isRunningLldb

\* lldbRun from the test of its wait loop to the next await, for request r of
\* kind k, with tq the timers left pending: sleep 10 ms while the bridge is
\* busy; otherwise take the bridge and allocate the request buffer, which
\* throws when runtime.lldb is still undefined.
lldbRun_enter(r, k, tq) ==
    IF WaitLoopBusy
    THEN /\ req' = [req EXCEPT ![r].kind = k, ![r].pc = "sleep", ![r].waited = TRUE]
         /\ timers' = Append(tq, r)
         /\ UNCHANGED <<isRunningLldb, heap>>
    ELSE /\ isRunningLldb' = TRUE
         /\ timers' = tq
         /\ IF EngineReady
            THEN /\ req' = [req EXCEPT ![r].kind = k, ![r].pc = "rx"]
                 /\ heap' = heap \cup {<<r, "rx">>}
            ELSE /\ req' = [req EXCEPT ![r].kind = k, ![r].pc = "failed",
                                       ![r].err = "TypeError"]
                 /\ UNCHANGED heap

\* setBreakPointsRequest, sourceRequest, stackTraceRequest, scopesRequest and
\* variablesRequest (filter other than "named") call lldbRun.
bridgeRequest(r, k) ==
    /\ NextSlot(r)
    /\ k \in BridgeKinds
    /\ lldbRun_enter(r, k, timers)
    /\ UNCHANGED <<events, inflight, hung>>
    /\ UNCHANGED initVars
    /\ UNCHANGED launchVars
    /\ UNCHANGED <<storeVars, pureVars>>

\* variablesRequest with filter "named": an unsuccessful response, no engine
\* call.
variablesRequest_named(r) ==
    /\ NextSlot(r)
    /\ req' = [req EXCEPT ![r].kind = "variables", ![r].pc = "refused",
                          ![r].resp = Append(@, "failure")]
    /\ UNCHANGED <<isRunningLldb, timers, events, inflight, hung, heap>>
    /\ UNCHANGED initVars
    /\ UNCHANGED launchVars
    /\ UNCHANGED <<storeVars, pureVars>>

\* Requests whose handler only logs.
SilentKinds == {"loadedSources", "disassemble"}

\* loadedSourcesRequest, disassembleRequest: the handler logs and returns.
silentRequest(r, k) ==
    /\ NextSlot(r)
    /\ k \in SilentKinds
    /\ req' = [req EXCEPT ![r].kind = k, ![r].pc = "done"]
    /\ UNCHANGED <<isRunningLldb, timers, events, inflight, hung, heap>>
    /\ UNCHANGED initVars
    /\ UNCHANGED launchVars
    /\ UNCHANGED <<storeVars, pureVars>>

\* A _sleep(10) timer fires: the sleeper tests the wait loop again.
sleep_fire ==
    /\ timers # <<>>
    /\ ~MicrotaskPending
    /\ lldbRun_enter(Head(timers), req[Head(timers)].kind, Tail(timers))
    /\ UNCHANGED <<events, inflight, hung>>
    /\ UNCHANGED initVars
    /\ UNCHANGED launchVars
    /\ UNCHANGED <<storeVars, pureVars>>

\* stringToUTF8 copies the request into the buffer.
lldbRun_write(r) ==
    /\ req[r].pc = "rx"
    /\ req' = [req EXCEPT ![r].pc = "written"]
    /\ UNCHANGED <<isRunningLldb, timers, events, inflight, hung, heap>>
    /\ UNCHANGED initVars
    /\ UNCHANGED launchVars
    /\ UNCHANGED <<storeVars, pureVars>>

\* ccall(funcName, ..., {async: true}) enters the engine.
lldbRun_ccall(r) ==
    /\ req[r].pc = "written"
    /\ req' = [req EXCEPT ![r].pc = "engine"]
    /\ inflight' = inflight \cup {r}
    /\ UNCHANGED <<isRunningLldb, timers, events, hung, heap>>
    /\ UNCHANGED initVars
    /\ UNCHANGED launchVars
    /\ UNCHANGED <<storeVars, pureVars>>

\* The busy flag reset as soon as the engine call is back, before the response
\* is sent.
lldbRun_read_release(r) ==
    /\ req[r].pc = "returned"
    /\ req[r].kind \in BridgeKinds
    /\ req' = [req EXCEPT ![r].pc = "decoded"]
    /\ isRunningLldb' = FALSE
    /\ UNCHANGED <<timers, events, inflight, hung, heap>>
    /\ UNCHANGED initVars
    /\ UNCHANGED launchVars
    /\ UNCHANGED <<storeVars, pureVars>>

\* UTF8ToString reads the response the engine left at txPtr.
lldbRun_read(r) ==
    /\ req[r].pc = "returned"
    /\ req[r].kind \in BridgeKinds
    /\ req' = [req EXCEPT ![r].pc = "decoded"]
    /\ UNCHANGED <<isRunningLldb, timers, events, inflight, hung, heap>>
    /\ UNCHANGED initVars
    /\ UNCHANGED launchVars
    /\ UNCHANGED <<storeVars, pureVars>>

\* JSON.parse (throws on a payload that is not JSON), the stack-trace rewrite
\* (throws on a response with fewer frames than totalFrames), sendResponse,
\* _free(rxPtr).
lldbRun_respond(r) ==
    /\ req[r].pc = "decoded"
    /\ IF req[r].out = "json"
       THEN /\ req' = [req EXCEPT ![r].pc = "freeRx", ![r].out = "none",
                                  ![r].resp = Append(@, "engine")]
            /\ heap' = heap \ {<<r, "rx">>}
       ELSE /\ req' = [req EXCEPT ![r].pc = "failed", ![r].out = "none",
                                  ![r].err = IF req[r].out = "malformed"
                                             THEN "SyntaxError" ELSE "TypeError"]
            /\ UNCHANGED heap
    /\ UNCHANGED <<isRunningLldb, timers, events, inflight, hung>>
    /\ UNCHANGED initVars
    /\ UNCHANGED launchVars
    /\ UNCHANGED <<storeVars, pureVars>>

\* _free(txPtr).
lldbRun_freeTx(r) ==
    /\ req[r].pc = "freeRx"
    /\ req' = [req EXCEPT ![r].pc = "freeTx"]
    /\ heap' = heap \ {<<r, "tx">>}
    /\ UNCHANGED <<isRunningLldb, timers, events, inflight, hung>>
    /\ UNCHANGED initVars
    /\ UNCHANGED launchVars
    /\ UNCHANGED <<storeVars, pureVars>>

\* this._isRunningLldb = false; lldbRun and its handler return.
lldbRun_release(r) ==
    /\ req[r].pc = "freeTx"
    /\ req' = [req EXCEPT ![r].pc = "done"]
    /\ isRunningLldb' = FALSE
    /\ UNCHANGED <<timers, events, inflight, hung, heap>>
    /\ UNCHANGED initVars
    /\ UNCHANGED launchVars
    /\ UNCHANGED <<storeVars, pureVars>>

(***************************************************************************)
(* continue, next, stepIn, stepOut: SolanaRuntime calls the engine itself. *)
(***************************************************************************)

\* The runtime event a SolanaRuntime method sends when its engine call is back.
RuntimeEvent(k) == IF k = "continue" THEN "stopOnBreakpoint" ELSE "stopOnStep"

\* The reason of the StoppedEvent the session sends for a runtime event.
StoppedReason(e) ==
    CASE e = "stopOnEntry" -> "entry"
      [] e = "stopOnStep" -> "step"
      [] e = "stopOnBreakpoint" -> "breakpoint"

\* continueRequest, nextRequest, stepInRequest up to `await this.lldb.ccall`:
\* the call enters the engine, or throws when runtime.lldb is undefined.
stepRequest(r, k) ==
    /\ NextSlot(r)
    /\ k \in StepKinds \ {"stepOut"}
    /\ IF EngineReady
       THEN /\ req' = [req EXCEPT ![r].kind = k, ![r].pc = "engine"]
            /\ inflight' = inflight \cup {r}
       ELSE /\ req' = [req EXCEPT ![r].kind = k, ![r].pc = "failed",
                                  ![r].err = "TypeError"]
            /\ UNCHANGED inflight
    /\ UNCHANGED <<isRunningLldb, timers, events, hung, heap>>
    /\ UNCHANGED initVars
    /\ UNCHANGED launchVars
    /\ UNCHANGED <<storeVars, pureVars>>

\* stepOutRequest does not await runtime.stepOut(): it responds at once.
stepOutRequest(r) ==
    /\ NextSlot(r)
    /\ IF EngineReady
       THEN /\ req' = [req EXCEPT ![r].kind = "stepOut", ![r].pc = "engine",
                                  ![r].resp = Append(@, "success")]
            /\ inflight' = inflight \cup {r}
       ELSE /\ req' = [req EXCEPT ![r].kind = "stepOut", ![r].pc = "failed",
                                  ![r].err = "TypeError",
                                  ![r].resp = Append(@, "success")]
            /\ UNCHANGED inflight
    /\ UNCHANGED <<isRunningLldb, timers, events, hung, heap>>
    /\ UNCHANGED initVars
    /\ UNCHANGED launchVars
    /\ UNCHANGED <<storeVars, pureVars>>

\* After `await this.lldb.ccall(...)` the runtime method sends its event
\* (setTimeout 0) and returns.
runtime_resume(r) ==
    /\ req[r].pc = "returned"
    /\ req[r].kind \in StepKinds
    /\ req' = [req EXCEPT ![r].pc = IF req[r].kind = "stepOut" THEN "done" ELSE "resumed",
                          ![r].ev = "queued"]
    /\ events' = Append(events, [src |-> r, name |-> RuntimeEvent(req[r].kind)])
    /\ UNCHANGED <<isRunningLldb, timers, inflight, hung, heap>>
    /\ UNCHANGED initVars
    /\ UNCHANGED launchVars
    /\ UNCHANGED <<storeVars, pureVars>>

\* continueRequest, nextRequest, stepInRequest after `await this._runtime.x()`.
stepRequest_respond(r) ==
    /\ req[r].pc = "resumed"
    /\ req' = [req EXCEPT ![r].pc = "done", ![r].resp = Append(@, "success")]
    /\ UNCHANGED <<isRunningLldb, timers, events, inflight, hung, heap>>
    /\ UNCHANGED initVars
    /\ UNCHANGED launchVars
    /\ UNCHANGED <<storeVars, pureVars>>

(***************************************************************************)
(* The embedded engine, as seen from the adapter.                          *)
(***************************************************************************)

\* Engine calls that may be left hanging in one run.
MaxHung == 1

\* The requests whose engine call never returns.
Hung == {h.call : h \in hung}

\* What an lldbRun entry point may leave at txPtr.
Payloads == {"json", "malformed"}

\* The engine call of request r returns: an lldbRun entry point leaves a
\* response buffer holding payload o, a runtime entry point returns nothing.
engine_return(r, o) ==
    /\ r \in inflight \ Hung
    /\ ~MicrotaskPending
    /\ o \in Payloads
    /\ req[r].kind \in StepKinds => o = "json"
    /\ inflight' = inflight \ {r}
    /\ req' = [req EXCEPT ![r].pc = "returned",
                          ![r].out = IF req[r].kind \in BridgeKinds THEN o ELSE "none"]
    /\ heap' = IF req[r].kind \in BridgeKinds THEN heap \cup {<<r, "tx">>} ELSE heap
    /\ UNCHANGED <<isRunningLldb, timers, events, hung>>
    /\ UNCHANGED initVars
    /\ UNCHANGED launchVars
    /\ UNCHANGED <<storeVars, pureVars>>

\* request_stackTrace returns one page of a deeper stack: a JSON response
\* whose body.totalFrames is larger than the number of stackFrames in it.
engine_return_paged(r) ==
    /\ r \in inflight \ Hung
    /\ ~MicrotaskPending
    /\ req[r].kind = "stackTrace"
    /\ inflight' = inflight \ {r}
    /\ req' = [req EXCEPT ![r].pc = "returned", ![r].out = "paged"]
    /\ heap' = heap \cup {<<r, "tx">>}
    /\ UNCHANGED <<isRunningLldb, timers, events, hung>>
    /\ UNCHANGED initVars
    /\ UNCHANGED launchVars
    /\ UNCHANGED <<storeVars, pureVars>>

\* The engine call of a continue or step returns because the debugged program
\* ran to its end: ccall resolves with no value, as for a stop.
engine_exit(r) ==
    /\ r \in inflight \ Hung
    /\ ~MicrotaskPending
    /\ req[r].kind \in StepKinds
    /\ inflight' = inflight \ {r}
    /\ req' = [req EXCEPT ![r].pc = "returned", ![r].out = "exited"]
    /\ UNCHANGED <<isRunningLldb, timers, events, hung, heap>>
    /\ UNCHANGED initVars
    /\ UNCHANGED launchVars
    /\ UNCHANGED <<storeVars, pureVars>>

\* The engine call of request r fails: the awaiting function throws, and so
\* does every handler awaiting it.
engine_reject(r) ==
    /\ r \in inflight \ Hung
    /\ ~MicrotaskPending
    /\ inflight' = inflight \ {r}
    /\ req' = [req EXCEPT ![r].pc = "failed", ![r].err = "EngineError"]
    /\ UNCHANGED <<isRunningLldb, timers, events, hung, heap>>
    /\ UNCHANGED initVars
    /\ UNCHANGED launchVars
    /\ UNCHANGED <<storeVars, pureVars>>

\* The engine call of request r never returns.
engine_hang(r) ==
    /\ r \in inflight \ Hung
    /\ Cardinality(hung) < MaxHung
    /\ hung' = hung \cup {[call |-> r, seen |-> Cardinality({q \in Reqs : req[q].pc # "new"})]}
    /\ UNCHANGED <<isRunningLldb, req, timers, events, inflight, heap>>
    /\ UNCHANGED initVars
    /\ UNCHANGED launchVars
    /\ UNCHANGED <<storeVars, pureVars>>

(***************************************************************************)
(* Launch and configurationDone.                                           *)
(***************************************************************************)

\* Source of the runtime event sent by SolanaRuntime.start.
LaunchCaller == 0

\* JavaScript's !!x for an optional boolean argument.
Truthy(x) == x = "true"

\* launchRequest up to `await this._configurationDone.wait(1000)`.
launchRequest(stopOnEntry) ==
    /\ launchPc = "idle"
    /\ launchPc' = "waiting"
    /\ launchArgs' = [stopOnEntry |-> stopOnEntry]
    /\ waiters' = waiters + 1
    /\ UNCHANGED <<woke, cfgDone, sent>>
    /\ UNCHANGED <<isRunningLldb, req, timers, events, inflight, hung, heap>>
    /\ UNCHANGED initVars
    /\ UNCHANGED <<storeVars, pureVars>>

\* configurationDone requests the editor sends in one run.
MaxCfgDone == 1

\* configurationDoneRequest: the base class responds, then Subject.notify()
\* resolves a waiter if there is one.
configurationDoneRequest ==
    /\ cfgDone < MaxCfgDone
    /\ cfgDone' = cfgDone + 1
    /\ sent' = Append(sent, "response:configurationDone")
    /\ IF waiters > 0
       THEN /\ waiters' = waiters - 1
            /\ launchPc' = "woken"
            /\ woke' = "notify"
       ELSE UNCHANGED <<waiters, launchPc, woke>>
    /\ UNCHANGED launchArgs
    /\ UNCHANGED <<isRunningLldb, req, timers, events, inflight, hung, heap>>
    /\ UNCHANGED initVars
    /\ UNCHANGED <<storeVars, pureVars>>

\* A wait without a timeout: no timer ever fires.
wait_forever == FALSE /\ UNCHANGED vars

\* The 1000 ms timer of Subject.wait fires: the waiter resolves itself.
wait_timeout ==
    /\ launchPc = "waiting"
    /\ ~MicrotaskPending
    /\ launchPc' = "woken"
    /\ woke' = "timeout"
    /\ waiters' = waiters - 1
    /\ UNCHANGED <<launchArgs, cfgDone, sent>>
    /\ UNCHANGED <<isRunningLldb, req, timers, events, inflight, hung, heap>>
    /\ UNCHANGED initVars
    /\ UNCHANGED <<storeVars, pureVars>>

\* SolanaRuntime.start(program, stopOnEntry, noDebug) sends 'stopOnEntry'.
start(stopOnEntry) ==
    events' = Append(events, [src |-> LaunchCaller, name |-> "stopOnEntry"])

\* launchRequest after the wait: `await this._runtime.start(...)`.
launchRequest_start ==
    /\ launchPc = "woken"
    /\ launchPc' = "started"
    /\ start(Truthy(launchArgs.stopOnEntry))
    /\ sent' = Append(sent, "start")
    /\ UNCHANGED <<launchArgs, waiters, woke, cfgDone>>
    /\ UNCHANGED <<isRunningLldb, req, timers, inflight, hung, heap>>
    /\ UNCHANGED initVars
    /\ UNCHANGED <<storeVars, pureVars>>

\* launchRequest after start returned: the launch response.
launchRequest_respond ==
    /\ launchPc = "started"
    /\ launchPc' = "done"
    /\ sent' = Append(sent, "response:launch")
    /\ UNCHANGED <<launchArgs, waiters, woke, cfgDone>>
    /\ UNCHANGED <<isRunningLldb, req, timers, events, inflight, hung, heap>>
    /\ UNCHANGED initVars
    /\ UNCHANGED <<storeVars, pureVars>>

(***************************************************************************)
(* SolanaRuntime.sendEvent defers emit() with setTimeout(0); the session's *)
(* listeners turn the runtime event into a StoppedEvent.                   *)
(***************************************************************************)
emit ==
    /\ events # <<>>
    /\ Head(events).name # "breakpointValidated"
    /\ ~MicrotaskPending
    /\ events' = Tail(events)
    /\ IF Head(events).src \in Reqs
       THEN /\ req' = [req EXCEPT ![Head(events).src].ev =
                          IF Head(events).name = "end" THEN "terminated"
                          ELSE StoppedReason(Head(events).name)]
            /\ UNCHANGED sent
       ELSE /\ sent' = Append(sent, "stopped:" \o StoppedReason(Head(events).name))
            /\ UNCHANGED req
    /\ UNCHANGED <<launchPc, launchArgs, waiters, woke, cfgDone>>
    /\ UNCHANGED <<isRunningLldb, timers, inflight, hung, heap>>
    /\ UNCHANGED initVars
    /\ UNCHANGED <<storeVars, pureVars>>

(***************************************************************************)
(* JavaScript strings, as the path rules use them.                         *)
(***************************************************************************)

\* s.indexOf(m) + 1: the first position of m in s, 0 when s has no m.
IndexOf(s, m) ==
    LET at == {i \in 1..(Len(s) - Len(m) + 1) : SubSeq(s, i, i + Len(m) - 1) = m}
    IN  IF at = {} THEN 0 ELSE CHOOSE i \in at : \A j \in at : i <= j

\* s.includes(m)
Includes(s, m) == IndexOf(s, m) # 0

\* s.split(sep): the pieces of s between the occurrences of sep.
RECURSIVE Split(_, _)
Split(s, sep) ==
    LET i == IndexOf(s, sep)
    IN  IF i = 0 THEN <<s>>
        ELSE <<SubSeq(s, 1, i - 1)>> \o Split(SubSeq(s, i + Len(sep), Len(s)), sep)

\* a[i] of an array of strings, indices from 0: undefined past the end.
At(a, i) == IF i + 1 <= Len(a) THEN Str(a[i + 1]) ELSE undefined

\* String(a) of an array of strings: its elements joined by commas.
RECURSIVE Join(_)
Join(a) ==
    IF a = <<>> THEN ""
    ELSE IF Len(a) = 1 THEN a[1]
    ELSE a[1] \o "," \o Join(Tail(a))

\* String(v), as `+` applies it to its right operand.
StringOf(v) == IF v = undefined THEN "undefined" ELSE v.val

\* v?.includes(m): undefined, hence falsy, when v is undefined.
OptIncludes(v, m) == v # undefined /\ Includes(v.val, m)

\* Where the engine has the Rust sources of the toolchain.
remoteRustPath == "/home/runner/work/bpf-tools/bpf-tools/out/rust/"

\* The editor's path of the Solana SDK and of the Rust sources.
solSdkPath == projectPath \o "sdk/program/"
rustCorePath == projectPath \o "rust-solana-1.59.0/"

\* setBreakPointsRequest: the engine path for the editor path `path`.
setBreakPointsRequest_lldbPath(path) ==
    LET lldbPath == IF path = undefined THEN undefined
                    ELSE At(Split(path.val, "code/"), 1)
    IN  IF OptIncludes(lldbPath, "sdk")
        THEN "home/home/" \o StringOf(At(Split(lldbPath.val, "sdk/program/"), 1))
        ELSE IF OptIncludes(lldbPath, "rust-solana")
        THEN remoteRustPath \o StringOf(At(Split(lldbPath.val, "rust-solana-1.59.0/"), 1))
        ELSE "home/" \o StringOf(lldbPath)

\* SolanaRuntime.setBreakPoint: the engine path for the editor path `path`;
\* "TypeError" when path has no 'code/' (includes of undefined).
setBreakPoint_lldbPath(path) ==
    LET lldbPath == At(Split(path, "code/"), 1)
    IN  IF lldbPath = undefined THEN [type |-> "TypeError"]
        ELSE IF Includes(lldbPath.val, "sdk")
        THEN Str("home/home/" \o Join(Split(lldbPath.val, "sdk/program/")))
        ELSE IF Includes(lldbPath.val, "rust-solana")
        THEN Str(remoteRustPath \o Join(Split(lldbPath.val, "rust-solana-1.59.0/")))
        ELSE Str("home/" \o Join(Split(lldbPath.val, "code/")))

\* lldbRun, request_stackTrace: the editor path for a frame's engine path.
stackTrace_sourcePath(sourcePath) ==
    IF OptIncludes(sourcePath, "home/home/")
    THEN solSdkPath \o StringOf(At(Split(sourcePath.val, "home/home/"), 1))
    ELSE IF OptIncludes(sourcePath, "/home/runner")
    THEN rustCorePath \o StringOf(At(Split(sourcePath.val, "out/rust/"), 1))
    ELSE projectPath \o StringOf(IF sourcePath = undefined THEN undefined
                                 ELSE At(Split(sourcePath.val, "home/"), 1))

(***************************************************************************)
(* SolanaRuntime's breakpoint store.  setBreakPoint suspends on the        *)
(* engine's set_breakpoint; clearBreakPoint and clearBreakpoints are       *)
(* synchronous and may run while set calls are suspended.                  *)
(***************************************************************************)

\* Set calls start in index order.
NextCall(c) == calls[c].pc = "new" /\ \A d \in Calls : d < c => calls[d].pc # "new"

\* _breakPoints.get(path), with [] for a file that has no list.
BreakpointsOf(path) == IF path \in DOMAIN breakPoints THEN breakPoints[path] ELSE <<>>

\* The value _breakpointId++ leaves in the counter.
NextBreakpointIdSame(n) == n

NextBreakpointId(n) == n + 1

\* setBreakPoint(path, line) up to `await this.lldb.ccall('set_breakpoint')`.
setBreakPoint(c, path, line) ==
    /\ NextCall(c)
    /\ LET lldbPath == setBreakPoint_lldbPath(path)
       IN  IF EngineReady /\ lldbPath.type = "string"
           THEN calls' = [calls EXCEPT ![c] = [path |-> path, line |-> line,
                                               pc |-> "engine",
                                               lldbPath |-> lldbPath.val, id |-> 0]]
           ELSE calls' = [calls EXCEPT ![c] = [path |-> path, line |-> line,
                                               pc |-> "failed",
                                               lldbPath |-> "", id |-> 0]]
    /\ ret' = [op |-> "none"]
    /\ UNCHANGED <<breakPoints, breakpointId, changed>>
    /\ UNCHANGED <<isRunningLldb, req, timers, events, inflight, hung, heap>>
    /\ UNCHANGED <<initVars, launchVars, pureVars>>

\* verifyBreakpoints(path): every breakpoint of the file's list is marked
\* verified and gets a 'breakpointValidated' event, sent with setTimeout(0).
verifyBreakpoints_events(c, bps) ==
    [i \in 1..Len(bps) |->
        [name |-> "breakpointValidated", call |-> c,
         bp |-> [bps[i] EXCEPT !.verified = TRUE]]]

\* The engine's set_breakpoint returned: the call takes its id, appends the
\* breakpoint to the file's list, verifies the list and returns.
setBreakPoint_resume(c) ==
    /\ calls[c].pc = "engine"
    /\ LET bp == [verified |-> FALSE, line |-> calls[c].line, id |-> breakpointId]
           bps == Append(BreakpointsOf(calls[c].path), bp)
       IN  /\ breakpointId' = NextBreakpointId(breakpointId)
           /\ breakPoints' = (calls[c].path :> [i \in 1..Len(bps) |->
                                                   [bps[i] EXCEPT !.verified = TRUE]])
                             @@ breakPoints
           /\ events' = events \o verifyBreakpoints_events(c, bps)
           /\ calls' = [calls EXCEPT ![c].pc = "done", ![c].id = bp.id]
           /\ ret' = [op |-> "none"]
    /\ UNCHANGED changed
    /\ UNCHANGED <<isRunningLldb, req, timers, inflight, hung, heap>>
    /\ UNCHANGED <<initVars, launchVars, pureVars>>

\* The engine's set_breakpoint fails: setBreakPoint throws, no breakpoint.
setBreakPoint_reject(c) ==
    /\ calls[c].pc = "engine"
    /\ calls' = [calls EXCEPT ![c].pc = "failed"]
    /\ UNCHANGED <<breakPoints, breakpointId, changed, ret>>
    /\ UNCHANGED <<isRunningLldb, req, timers, events, inflight, hung, heap>>
    /\ UNCHANGED <<initVars, launchVars, pureVars>>

\* The list without its element at index i.
Splice(bps, i) == SubSeq(bps, 1, i - 1) \o SubSeq(bps, i + 1, Len(bps))

\* bps.findIndex(bp => bp.line === line) + 1: 0 when there is none.
FindIndex(bps, line) ==
    LET at == {i \in 1..Len(bps) : bps[i].line = line}
    IN  IF at = {} THEN 0 ELSE CHOOSE i \in at : \A j \in at : i <= j

\* clearBreakPoint(path, line): removes and returns the first breakpoint of
\* the file on that line, undefined when there is none.
clearBreakPoint(path, line) ==
    /\ LET bps == BreakpointsOf(path)
           index == FindIndex(bps, line)
       IN  IF path \in DOMAIN breakPoints /\ index > 0
           THEN /\ breakPoints' = [breakPoints EXCEPT ![path] = Splice(bps, index)]
                /\ ret' = [op |-> "clearBreakPoint", path |-> path, line |-> line,
                           bp |-> bps[index], before |-> breakPoints]
           ELSE /\ UNCHANGED breakPoints
                /\ ret' = [op |-> "clearBreakPoint", path |-> path, line |-> line,
                           bp |-> undefined, before |-> breakPoints]
    /\ UNCHANGED <<breakpointId, calls, changed>>
    /\ UNCHANGED <<isRunningLldb, req, timers, events, inflight, hung, heap>>
    /\ UNCHANGED <<initVars, launchVars, pureVars>>

\* clearBreakpoints(path): _breakPoints.delete(path).
clearBreakpoints(path) ==
    /\ breakPoints' = [f \in DOMAIN breakPoints \ {path} |-> breakPoints[f]]
    /\ ret' = [op |-> "clearBreakpoints", path |-> path]
    /\ UNCHANGED <<breakpointId, calls, changed>>
    /\ UNCHANGED <<isRunningLldb, req, timers, events, inflight, hung, heap>>
    /\ UNCHANGED <<initVars, launchVars, pureVars>>

\* The session's 'breakpointValidated' listener, run by sendEvent's timer:
\* it sends BreakpointEvent('changed', {verified: bp.verified, id: bp.id}).
emit_breakpointValidated ==
    /\ events # <<>>
    /\ Head(events).name = "breakpointValidated"
    /\ ~MicrotaskPending
    /\ events' = Tail(events)
    /\ changed' = Append(changed, [verified |-> Head(events).bp.verified,
                                   id |-> Head(events).bp.id,
                                   call |-> Head(events).call])
    /\ UNCHANGED <<breakPoints, breakpointId, calls, ret>>
    /\ UNCHANGED <<isRunningLldb, req, timers, inflight, hung, heap>>
    /\ UNCHANGED <<initVars, launchVars, pureVars>>

(***************************************************************************)
(* Handlers that compute their answer from their arguments alone: the path *)
(* rules of setBreakPointsRequest, SolanaRuntime.setBreakPoint and         *)
(* lldbRun('request_stackTrace'), and readMemoryRequest.  `arg` holds the  *)
(* arguments, `res` what the handler sent.                                 *)
(***************************************************************************)

\* Paths below the project root that the editor has breakpoints in.
RelPaths ==
    {"src/lib.rs", "src/home/mod.rs", "src/sdk_util.rs",
     "sdk/program/src/pubkey.rs",
     "rust-solana-1.59.0/library/core/src/ptr.rs", "rust-solana/lib.rs"}

\* Editor paths: below the project root, below another root, without 'code/'.
EditorPaths ==
    {projectPath \o p : p \in RelPaths} \cup {"/opt/code/src/lib.rs", "/tmp/main.rs"}

\* setBreakPointsRequest: args.source.path becomes the engine's path before
\* the request goes to lldbRun.
setBreakPointsRequest_path ==
    /\ arg.fn = "setBreakpoints"
    /\ res = NoRes
    /\ res' = [fn |-> "setBreakpoints",
               lldbPath |-> setBreakPointsRequest_lldbPath(arg.path)]
    /\ UNCHANGED arg
    /\ UNCHANGED <<isRunningLldb, req, timers, events, inflight, hung, heap>>
    /\ UNCHANGED <<initVars, launchVars, storeVars>>

\* The engine stops in the file the breakpoint was set in and reports the
\* path it was given; the stack-trace rewrite turns it into an editor path.
lldbRun_sourcePath ==
    /\ res.fn = "setBreakpoints"
    /\ res' = [fn |-> "roundTrip", lldbPath |-> res.lldbPath,
               sourcePath |-> stackTrace_sourcePath(Str(res.lldbPath))]
    /\ UNCHANGED arg
    /\ UNCHANGED <<isRunningLldb, req, timers, events, inflight, hung, heap>>
    /\ UNCHANGED <<initVars, launchVars, storeVars>>

\* SolanaRuntime.setBreakPoint: the path it hands to set_breakpoint.
setBreakPoint_path ==
    /\ arg.fn = "setBreakPoint"
    /\ res = NoRes
    /\ res' = [fn |-> "setBreakPoint", lldbPath |-> setBreakPoint_lldbPath(arg.path.val)]
    /\ UNCHANGED arg
    /\ UNCHANGED <<isRunningLldb, req, timers, events, inflight, hung, heap>>
    /\ UNCHANGED <<initVars, launchVars, storeVars>>

\* Most frames in a stack-trace response.
MaxFrames == 2

\* Paths the engine reports: SDK, Rust sources, project, and one without 'home/'.
EnginePaths ==
    {"home/home/src/pubkey.rs", remoteRustPath \o "library/core/src/ptr.rs",
     "home/src/lib.rs", "main.rs"}

\* Frames of a stack-trace response: with a source path, or with a
\* sourceReference (code the engine has no file for).
Frame(path, ref) ==
    [name |-> "process_instruction",
     source |-> [name |-> "source", path |-> Str(path), sourceReference |-> ref]]

Frames ==
    {Frame(p, undefined) : p \in EnginePaths} \cup {Frame("home/src/lib.rs", Num(1000))}

\* The rewrite of one frame: lines 373-392.
RewriteFrame(fr) ==
    IF fr.source.sourceReference # undefined
    THEN [fr EXCEPT !.source.name = fr.name]
    ELSE [fr EXCEPT !.source.path = Str(stackTrace_sourcePath(fr.source.path))]

\* lldbRun('request_stackTrace') from JSON.parse to sendResponse: the loop
\* runs id from 0 to totalFrames-1 and throws on stackFrames[id] undefined.
lldbRun_stackTrace ==
    /\ arg.fn = "stackTrace"
    /\ res = NoRes
    /\ LET totalFrames == IF arg.body.totalFrames # undefined
                          THEN arg.body.totalFrames.val ELSE 0
           stackFrames == arg.body.stackFrames
       IN  IF totalFrames > Len(stackFrames)
           THEN res' = [fn |-> "stackTrace", type |-> "TypeError"]
           ELSE res' = [fn |-> "stackTrace", type |-> "response",
                        stackFrames |-> [i \in 1..Len(stackFrames) |->
                                            IF i <= totalFrames
                                            THEN RewriteFrame(stackFrames[i])
                                            ELSE stackFrames[i]]]
    /\ UNCHANGED arg
    /\ UNCHANGED <<isRunningLldb, req, timers, events, inflight, hung, heap>>
    /\ UNCHANGED <<initVars, launchVars, storeVars>>

\* SolanaRuntime.memory: Buffer.alloc(0), never replaced.
memory == <<>>

\* Largest offset and count of a readMemory request.
MaxOffset == 3
MaxCount == 3

\* buf.slice(from, to) for from, to >= 0: the bytes at indices from..to-1,
\* both clamped to the buffer.
Slice(buf, from, to) ==
    LET e == IF to > Len(buf) THEN Len(buf) ELSE to
    IN  IF from >= e THEN <<>> ELSE SubSeq(buf, from + 1, e)

Base64Alphabet == "ABCDEFGHIJKLMNOPQRSTUVWXYZabcdefghijklmnopqrstuvwxyz0123456789+/"

Base64Char(n) == SubSeq(Base64Alphabet, n + 1, n + 1)

\* buf.toString('base64')
RECURSIVE Base64(_)
Base64(buf) ==
    IF Len(buf) = 0 THEN ""
    ELSE IF Len(buf) = 1
    THEN Base64Char(buf[1] \div 4) \o Base64Char((buf[1] % 4) * 16) \o "=="
    ELSE IF Len(buf) = 2
    THEN Base64Char(buf[1] \div 4) \o Base64Char((buf[1] % 4) * 16 + buf[2] \div 16)
         \o Base64Char((buf[2] % 16) * 4) \o "="
    ELSE Base64Char(buf[1] \div 4) \o Base64Char((buf[1] % 4) * 16 + buf[2] \div 16)
         \o Base64Char((buf[2] % 16) * 4 + buf[3] \div 64) \o Base64Char(buf[3] % 64)
         \o Base64(SubSeq(buf, 4, Len(buf)))

\* readMemoryRequest
readMemoryRequest ==
    /\ arg.fn = "readMemory"
    /\ res = NoRes
    /\ res' = [fn |-> "readMemory",
               data |-> Base64(Slice(memory, arg.offset, arg.count)),
               unreadableBytes |-> Len(memory) - (arg.offset + arg.count)]
    /\ UNCHANGED arg
    /\ UNCHANGED <<isRunningLldb, req, timers, events, inflight, hung, heap>>
    /\ UNCHANGED <<initVars, launchVars, storeVars>>

\* Longest request string, in characters.
MaxRequestLen == 3

\* Characters of a request string, as code points: 'a', e-acute, the euro
\* sign and an emoji, which take 1, 2, 3 and 4 bytes in UTF-8.
Chars == {97, 233, 8364, 128512}

\* str.length: the number of UTF-16 code units of a string of code points.
RECURSIVE Length(_)
Length(str) ==
    IF str = <<>> THEN 0
    ELSE (IF Head(str) < 65536 THEN 1 ELSE 2) + Length(Tail(str))

\* The UTF-8 bytes of one code point.
Utf8(cp) ==
    IF cp < 128 THEN <<cp>>
    ELSE IF cp < 2048 THEN <<192 + (cp \div 64), 128 + (cp % 64)>>
    ELSE IF cp < 65536
    THEN <<224 + (cp \div 4096), 128 + ((cp \div 64) % 64), 128 + (cp % 64)>>
    ELSE <<240 + (cp \div 262144), 128 + ((cp \div 4096) % 64),
           128 + ((cp \div 64) % 64), 128 + (cp % 64)>>

\* The bytes stringToUTF8 writes before the terminator when `room` bytes are
\* left for them: it stops at the first character that does not fit.
RECURSIVE Utf8Fitting(_, _)
Utf8Fitting(str, room) ==
    IF str = <<>> \/ Len(Utf8(Head(str))) > room THEN <<>>
    ELSE Utf8(Head(str)) \o Utf8Fitting(Tail(str), room - Len(Utf8(Head(str))))

\* stringToUTF8(str, outPtr, maxBytesToWrite): the bytes left at outPtr, at
\* most maxBytesToWrite of them, the last one the terminator 0.
StringToUTF8(str, maxBytesToWrite) ==
    IF maxBytesToWrite <= 0 THEN <<>>
    ELSE Utf8Fitting(str, maxBytesToWrite - 1) \o <<0>>

\* UTF8ToString(ptr): the string the bytes at ptr decode to, up to the
\* terminator.
RECURSIVE UTF8ToString(_)
UTF8ToString(bytes) ==
    IF bytes = <<>> \/ Head(bytes) = 0 THEN <<>>
    ELSE IF Head(bytes) < 128
    THEN <<Head(bytes)>> \o UTF8ToString(Tail(bytes))
    ELSE IF Head(bytes) < 224
    THEN <<(bytes[1] - 192) * 64 + (bytes[2] - 128)>>
         \o UTF8ToString(SubSeq(bytes, 3, Len(bytes)))
    ELSE IF Head(bytes) < 240
    THEN <<(bytes[1] - 224) * 4096 + (bytes[2] - 128) * 64 + (bytes[3] - 128)>>
         \o UTF8ToString(SubSeq(bytes, 4, Len(bytes)))
    ELSE <<(bytes[1] - 240) * 262144 + (bytes[2] - 128) * 4096
           + (bytes[3] - 128) * 64 + (bytes[4] - 128)>>
         \o UTF8ToString(SubSeq(bytes, 5, Len(bytes)))

\* lldbRun from _malloc to ccall: the request is copied into a buffer of
\* request.length + 1 bytes, which the engine then reads as a C string.
lldbRun_copy ==
    /\ arg.fn = "lldbRun"
    /\ res = NoRes
    /\ LET size == Length(arg.request) + 1
           buffer == StringToUTF8(arg.request, size)
       IN  res' = [fn |-> "lldbRun", size |-> size,
                   numBytesWritten |-> Len(buffer) - 1,
                   read |-> UTF8ToString(buffer)]
    /\ UNCHANGED arg
    /\ UNCHANGED <<isRunningLldb, req, timers, events, inflight, hung, heap>>
    /\ UNCHANGED <<initVars, launchVars, storeVars>>

\* Sequences over S of length at most n.
SeqUpTo(S, n) == UNION {[1..k -> S] : k \in 0..n}

\* The arguments the handlers are studied on.
Args ==
    {[fn |-> "setBreakpoints", path |-> p] :
        p \in {Str(e) : e \in EditorPaths} \cup {undefined}}
    \cup {[fn |-> "setBreakPoint", path |-> Str(e)] : e \in EditorPaths}
    \cup {[fn |-> "stackTrace", body |-> [stackFrames |-> fs, totalFrames |-> t]] :
            fs \in SeqUpTo(Frames, MaxFrames),
            t \in {Num(n) : n \in 0..(MaxFrames + 1)} \cup {undefined}}
    \cup {[fn |-> "readMemory", offset |-> o, count |-> n] :
            o \in 0..MaxOffset, n \in 0..MaxCount}
    \cup {[fn |-> "lldbRun", request |-> str] : str \in SeqUpTo(Chars, MaxRequestLen)}

ArgsInit ==
    /\ SessionInit
    /\ arg \in Args
    /\ res = NoRes

(***************************************************************************)
(* Specifications.                                                         *)
(***************************************************************************)

Startup ==
    \/ initializeRequest
    \/ initLLDB_step
    \/ initLLDB_ccall
    \/ initializeRequest_respond

Requests ==
    \/ \E r \in Reqs, k \in BridgeKinds : bridgeRequest(r, k)
    \/ \E r \in Reqs : variablesRequest_named(r)
    \/ \E r \in Reqs, k \in StepKinds : stepRequest(r, k)
    \/ \E r \in Reqs : stepOutRequest(r)

Bridge ==
    \/ sleep_fire
    \/ \E r \in Reqs : lldbRun_write(r)
    \/ \E r \in Reqs : lldbRun_ccall(r)
    \/ \E r \in Reqs : lldbRun_read(r)
    \/ \E r \in Reqs : lldbRun_respond(r)
    \/ \E r \in Reqs : lldbRun_freeTx(r)
    \/ \E r \in Reqs : lldbRun_release(r)

Runtime ==
    \/ \E r \in Reqs : runtime_resume(r)
    \/ \E r \in Reqs : stepRequest_respond(r)

Engine ==
    \/ \E r \in Reqs, o \in Payloads : engine_return(r, o)
    \/ \E r \in Reqs : engine_reject(r)
    \/ \E r \in Reqs : engine_hang(r)

Launch ==
    \/ \E s \in {"true", "false", "unspecified"} : launchRequest(s)
    \/ configurationDoneRequest
    \/ wait_timeout
    \/ launchRequest_start
    \/ launchRequest_respond

\* The session serving debugging requests, whenever the editor sends them.
Next == Startup \/ Requests \/ Bridge \/ Runtime \/ Engine \/ emit

Spec == Init /\ [][Next]_vars

\* The editor has got the initialize response and the initialized event.
Initialized == initPc = "done"

\* The request handlers, for an editor that sends debugging requests only
\* after it got the initialize response.
session_bridgeRequest(r, k) == Initialized /\ bridgeRequest(r, k)

session_variablesRequest_named(r) == Initialized /\ variablesRequest_named(r)

session_stepRequest(r, k) == Initialized /\ stepRequest(r, k)

session_stepOutRequest(r) == Initialized /\ stepOutRequest(r)

SessionNext ==
    \/ Startup
    \/ \E r \in Reqs, k \in BridgeKinds : session_bridgeRequest(r, k)
    \/ \E r \in Reqs : session_variablesRequest_named(r)
    \/ \E r \in Reqs, k \in StepKinds : session_stepRequest(r, k)
    \/ \E r \in Reqs : session_stepOutRequest(r)
    \/ Bridge \/ Runtime \/ Engine \/ emit

SpecSession == Init /\ [][SessionNext]_vars

\* The session with an editor that sends only requests served by lldbRun,
\* whenever it likes.
BridgeNext ==
    \/ Startup
    \/ \E r \in Reqs, k \in BridgeKinds : bridgeRequest(r, k)
    \/ \E r \in Reqs : variablesRequest_named(r)
    \/ Bridge
    \/ Engine

SpecBridge == Init /\ [][BridgeNext]_vars

\* The session from initialize to launch, without debugging requests.
LaunchNext == Startup \/ Launch \/ emit

\* The event loop runs every continuation whose awaited value is there and
\* every timer that has expired.
LaunchFairness ==
    /\ WF_vars(initializeRequest_respond)
    /\ WF_vars(wait_timeout)
    /\ WF_vars(launchRequest_start)
    /\ WF_vars(launchRequest_respond)
    /\ WF_vars(emit)

SpecLaunch == Init /\ [][LaunchNext]_vars /\ LaunchFairness

session_silentRequest(r, k) == Initialized /\ silentRequest(r, k)

\* The session after the initialize response, with an engine whose calls
\* all return, the lldbRun entry points with a JSON response.
ResponsesNext ==
    \/ Startup
    \/ \E r \in Reqs, k \in BridgeKinds : session_bridgeRequest(r, k)
    \/ \E r \in Reqs : session_variablesRequest_named(r)
    \/ \E r \in Reqs, k \in StepKinds : session_stepRequest(r, k)
    \/ \E r \in Reqs : session_stepOutRequest(r)
    \/ \E r \in Reqs, k \in SilentKinds : session_silentRequest(r, k)
    \/ Bridge
    \/ Runtime
    \/ \E r \in Reqs : engine_return(r, "json")
    \/ emit

SpecResponses == Init /\ [][ResponsesNext]_vars

\* The session serving lldbRun requests after the initialize response, with
\* an engine that answers every call with a valid JSON response.
LockNext ==
    \/ Startup
    \/ \E r \in Reqs, k \in BridgeKinds : session_bridgeRequest(r, k)
    \/ Bridge
    \/ \E r \in Reqs : engine_return(r, "json")
    \/ \E r \in Reqs : engine_return_paged(r)

\* The event loop runs every expired timer and every continuation whose
\* awaited value is there, and the engine answers every call.
LockFairness ==
    /\ WF_vars(sleep_fire)
    /\ \A r \in Reqs :
        /\ WF_vars(lldbRun_write(r))
        /\ WF_vars(lldbRun_ccall(r))
        /\ WF_vars(lldbRun_read(r))
        /\ WF_vars(lldbRun_respond(r))
        /\ WF_vars(lldbRun_freeTx(r))
        /\ WF_vars(lldbRun_release(r))
        /\ WF_vars(engine_return(r, "json") \/ engine_return_paged(r))

SpecLock == Init /\ [][LockNext]_vars /\ LockFairness

\* The session with an editor that resumes the program (continue, next,
\* stepIn, stepOut) after the initialize response; the program may run to
\* its end during any of these calls.
SteppingNext ==
    \/ Startup
    \/ \E r \in Reqs, k \in StepKinds : session_stepRequest(r, k)
    \/ \E r \in Reqs : session_stepOutRequest(r)
    \/ Runtime
    \/ \E r \in Reqs : engine_return(r, "json")
    \/ \E r \in Reqs : engine_exit(r)
    \/ \E r \in Reqs : engine_reject(r)
    \/ \E r \in Reqs : engine_hang(r)
    \/ emit

SpecStepping == Init /\ [][SteppingNext]_vars

\* The runtime's breakpoint store with a caller that uses setBreakPoint,
\* clearBreakPoint and clearBreakpoints, in any order, once the session is
\* initialized.
store_setBreakPoint(c, path, line) == Initialized /\ setBreakPoint(c, path, line)

store_clearBreakPoint(path, line) == Initialized /\ clearBreakPoint(path, line)

store_clearBreakpoints(path) == Initialized /\ clearBreakpoints(path)

StoreNext ==
    \/ Startup
    \/ \E c \in Calls, f \in Files, l \in Lines : store_setBreakPoint(c, f, l)
    \/ \E c \in Calls : setBreakPoint_resume(c)
    \/ \E c \in Calls : setBreakPoint_reject(c)
    \/ \E f \in Files, l \in Lines : store_clearBreakPoint(f, l)
    \/ \E f \in Files : store_clearBreakpoints(f)
    \/ emit_breakpointValidated

SpecStore == Init /\ [][StoreNext]_vars

\* Each handler applied to each of the arguments.
HandlersNext ==
    \/ setBreakPointsRequest_path
    \/ lldbRun_sourcePath
    \/ setBreakPoint_path
    \/ lldbRun_stackTrace
    \/ readMemoryRequest
    \/ lldbRun_copy

SpecHandlers == ArgsInit /\ [][HandlersNext]_vars

(***************************************************************************)
(* Properties of the bridge.                                               *)
(***************************************************************************)

\* Positions of lldbRun between `_isRunningLldb = true` and
\* `_isRunningLldb = false`.
CriticalPcs == {"rx", "written", "engine", "returned", "decoded", "freeRx", "freeTx"}

\* Request r is an lldbRun invocation that has taken the bridge and has not
\* given it back (an invocation that threw never gives it back).
Holding(r) ==
    /\ req[r].kind \in BridgeKinds
    /\ req[r].pc \in CriticalPcs \cup {"failed"}

\* Request r is an lldbRun invocation that has taken the bridge at some time.
Entered(r) ==
    /\ req[r].kind \in BridgeKinds
    /\ req[r].pc \in CriticalPcs \cup {"failed", "done"}

\* The requests owning a buffer in engine memory.
BufferOwners == {b[1] : b \in heap}

\* C1: at most one lldbRun invocation is between setting _isRunningLldb and
\* resetting it, the flag is set exactly while there is one, and all buffers
\* allocated and not yet freed belong to that one invocation.
MutualExclusion ==
    /\ Cardinality({r \in Reqs : Holding(r)}) <= 1
    /\ isRunningLldb <=> \E r \in Reqs : Holding(r)
    /\ Cardinality(BufferOwners) <= 1
    /\ \A r \in BufferOwners : Holding(r)

\* C1 happens: one invocation is in the engine with its request buffer
\* allocated while another lldbRun call waits on the busy flag.
MutualExclusionWitness ==
    \E r1, r2 \in Reqs :
        /\ req[r1].pc = "engine" /\ req[r1].kind \in BridgeKinds
        /\ <<r1, "rx">> \in heap
        /\ req[r2].pc = "sleep"

\* C2: engine calls are serialized whatever their entry point: no request's
\* engine call is inside the engine while another request's engine call is.
GlobalSerialization ==
    \A r1, r2 \in inflight \cap Reqs : r1 = r2

\* C3: lldbRun calls take the bridge in the order they were submitted: no
\* call still waiting on the busy flag has been overtaken by a call submitted
\* after it.
FifoOrder ==
    \A r1, r2 \in Reqs :
        (r1 < r2 /\ req[r1].pc = "sleep") => ~Entered(r2)

\* C4: whenever the request buffer of an lldbRun call is allocated, every
\* other lldbRun call that took the bridge has had its response sent.
NoInterleaving ==
    \A r1, r2 \in Reqs :
        (r1 # r2 /\ <<r2, "rx">> \in heap /\ Entered(r1)) => req[r1].resp # <<>>

\* C4 happens: a call that found the bridge busy now has its request buffer
\* allocated, after the response of the earlier call.
NoInterleavingWitness ==
    \E r1, r2 \in Reqs :
        /\ r1 < r2
        /\ Entered(r1) /\ req[r1].resp = <<"engine">>
        /\ req[r2].waited /\ req[r2].pc = "rx" /\ <<r2, "rx">> \in heap

\* The startup steps followed by the initialize response and the initialized
\* event.
StartupOrder == InitSteps \o <<"response", "initialized">>

\* C5: the startup steps complete one after another in program order, then
\* the initialize response is sent, then the initialized event, and no
\* request's engine call is in the engine before initLLDB has returned.
OrderedStartup ==
    /\ Len(initLog) <= Len(StartupOrder)
    /\ initLog = SubSeq(StartupOrder, 1, Len(initLog))
    /\ \A r \in inflight \cap Reqs : initPc \in {"ended", "done"}

\* Some lldbRun call other than r is between taking and giving back the bridge.
OtherInFlight(r) == \E q \in Reqs \ {r} : req[q].kind \in BridgeKinds /\ req[q].pc \in CriticalPcs

\* C6: an lldbRun call made while runtime.lldb is not assigned is answered
\* with a failure response and leaves the busy flag as it was.
EngineNotReadyRejected ==
    \A r \in Reqs :
        (req[r].kind \in BridgeKinds /\ req[r].err = "TypeError") =>
            /\ req[r].resp = <<"failure">>
            /\ isRunningLldb => OtherInFlight(r)

\* C7: an lldbRun call whose engine call returned a payload that is not JSON
\* is answered with a failure response, owns no buffer any more and does not
\* keep the busy flag.
ProtocolErrorContained ==
    \A r \in Reqs :
        (req[r].kind \in BridgeKinds /\ req[r].err = "SyntaxError") =>
            /\ req[r].resp = <<"failure">>
            /\ r \notin BufferOwners
            /\ isRunningLldb => OtherInFlight(r)

\* C8: once an engine call hangs, no request that came in later and needs the
\* engine reaches the engine or gets a response.
HangStallsAll ==
    \A h \in hung : \A s \in Reqs :
        (s > h.seen /\ req[s].pc \notin {"new", "refused"}) =>
            /\ s \notin inflight
            /\ req[s].resp = <<>>

(***************************************************************************)
(* Properties of launch.                                                   *)
(***************************************************************************)

Occurs(m) == \E i \in 1..Len(sent) : sent[i] = m

\* C9: the program is never started before a configurationDone notification
\* or the timeout resolved the wait, and a launch request always leads to the
\* program being started and the launch response being sent.
LaunchNeverHangs ==
    /\ [](Occurs("start") => woke \in {"notify", "timeout"})
    /\ (launchPc = "waiting") ~> (Occurs("start") /\ Occurs("response:launch"))

\* C9 happens: no configurationDone was ever received, the wait timed out, and
\* the launch was answered.
LaunchNeverHangsWitness ==
    /\ cfgDone = 0
    /\ woke = "timeout"
    /\ launchPc = "done"
    /\ Occurs("response:launch")

\* C10: a stopped event with reason 'entry' is sent for a launch only if
\* stopOnEntry was requested.
StopOnEntryOnlyIfRequested ==
    Occurs("stopped:entry") => Truthy(launchArgs.stopOnEntry)

(***************************************************************************)
(* Properties of the runtime's events.                                     *)
(***************************************************************************)

\* C11: when the engine call of a continue or step returned because the
\* program ran to its end, the event the session sends for that request is
\* the terminated event, never a further stopped event.
TerminatedOnProgramEnd ==
    \A r \in Reqs :
        req[r].out = "exited" /\ req[r].ev \notin {"none", "queued"}
            => req[r].ev = "terminated"

(***************************************************************************)
(* Properties of the breakpoint store.                                     *)
(***************************************************************************)

\* The ids of the breakpoints in the store.
StoredIds(f) == {breakPoints[f][i].id : i \in DOMAIN breakPoints[f]}

\* In every state: every id taken is at least 1 and below the counter, no two
\* set calls took the same id, the ids taken are exactly 1.._breakpointId-1,
\* and no id is twice in the store.
BreakpointIdsDistinct ==
    /\ \A c \in Calls : calls[c].id # 0 => calls[c].id \in 1..(breakpointId - 1)
    /\ \A c, d \in Calls : c # d /\ calls[c].id # 0 => calls[c].id # calls[d].id
    /\ {calls[c].id : c \in Calls} \ {0} = 1..(breakpointId - 1)
    /\ \A f \in DOMAIN breakPoints :
         /\ StoredIds(f) \subseteq {calls[c].id : c \in Calls} \ {0}
         /\ Cardinality(StoredIds(f)) = Len(breakPoints[f])
         /\ \A g \in DOMAIN breakPoints : f # g => StoredIds(f) \cap StoredIds(g) = {}

\* In every step: a set call that takes its id takes one above every id
\* taken before, whether or not that breakpoint is still in the store.
BreakpointIdsIncreasing ==
    \A c \in Calls :
        calls[c].id = 0 /\ calls'[c].id # 0
            => \A d \in Calls : calls[d].id < calls'[c].id

\* C12: breakpoint ids are unique, start at 1, grow strictly in the order
\* they are assigned and are never reused, for every interleaving of
\* suspended setBreakPoint calls with clearBreakPoint and clearBreakpoints.
BreakpointIdsUnique == []BreakpointIdsDistinct /\ [][BreakpointIdsIncreasing]_vars

\* Two set calls were suspended on the engine together and took their ids in
\* the opposite order of the calls, and the breakpoint of the one that took
\* its id first has been cleared since.
BreakpointIdsUniqueWitness ==
    \E c, d \in Calls :
        /\ c < d
        /\ calls[c].pc = "done" /\ calls[d].pc = "done"
        /\ calls[d].id < calls[c].id
        /\ \A f \in DOMAIN breakPoints : calls[d].id \notin StoredIds(f)
        /\ \E f \in DOMAIN breakPoints : calls[c].id \in StoredIds(f)

\* The BreakpointEvents the editor got from set call c, in order.
Notifications(c) == SelectSeq(changed, LAMBDA e : e.call = c)

\* Set call c has sent a 'breakpointValidated' event that is still to be emitted.
NotificationPending(c) ==
    \E i \in DOMAIN events :
        events[i].name = "breakpointValidated" /\ events[i].call = c

\* C13: a completed setBreakPoint makes the session send exactly one
\* breakpoint-changed notification, the one for the breakpoint it created,
\* with that breakpoint's id and verified = true; breakpoints that were in
\* the file's list already are not notified again.
OneNotificationPerSet ==
    \A c \in Calls :
        calls[c].pc = "done" /\ ~NotificationPending(c)
            => Notifications(c) = <<[verified |-> TRUE, id |-> calls[c].id, call |-> c]>>

\* C14: a file's list never holds two breakpoints on the same line.
OneBreakpointPerLine ==
    \A f \in DOMAIN breakPoints :
        \A i, j \in DOMAIN breakPoints[f] :
            breakPoints[f][i].line = breakPoints[f][j].line => i = j

\* The store `store` has a breakpoint on line `line` of file `path`.
HasBreakpoint(store, path, line) ==
    /\ path \in DOMAIN store
    /\ \E i \in DOMAIN store[path] : store[path][i].line = line

\* C15: clearBreakPoint(file, line) on a store that has a breakpoint there
\* (setBreakPoint(file, line) ran before) returns a breakpoint on that line
\* and leaves no breakpoint for (file, line); on a store that has none it
\* returns undefined and leaves the store as it was.
ClearBreakPointClears ==
    ret.op = "clearBreakPoint" =>
        IF HasBreakpoint(ret.before, ret.path, ret.line)
        THEN /\ ret.bp # undefined
             /\ ret.bp.line = ret.line
             /\ ~HasBreakpoint(breakPoints, ret.path, ret.line)
        ELSE /\ ret.bp = undefined
             /\ breakPoints = ret.before

(***************************************************************************)
(* Properties of the path rules and of readMemory.                         *)
(***************************************************************************)

\* C16: every frame of a stack-trace response that is sent has been
\* rewritten (path by the reverse rule, or source name for a frame with a
\* sourceReference), whether totalFrames is absent, smaller or larger than
\* the number of frames, and the response is sent.
EveryFrameRewritten ==
    res.fn = "stackTrace" =>
        /\ res.type = "response"
        /\ \A i \in DOMAIN arg.body.stackFrames :
               res.stackFrames[i] = RewriteFrame(arg.body.stackFrames[i])

\* Everything in s after the first m.
After(s, m) == SubSeq(s, IndexOf(s, m) + Len(m), Len(s))

\* The forward path rule, for an editor path that has its markers.
ForwardRule(path) ==
    LET R == After(path, "code/")
    IN  IF Includes(R, "sdk") THEN "home/home/" \o After(R, "sdk/program/")
        ELSE IF Includes(R, "rust-solana")
        THEN remoteRustPath \o After(R, "rust-solana-1.59.0/")
        ELSE "home/" \o R

\* The editor path has the markers the forward rule splits on.
MarkersPresent(path) ==
    /\ Includes(path, "code/")
    /\ LET R == After(path, "code/")
       IN  IF Includes(R, "sdk") THEN Includes(R, "sdk/program/")
           ELSE Includes(R, "rust-solana") => Includes(R, "rust-solana-1.59.0/")

\* C17: for an editor path with its markers, setBreakPointsRequest and
\* SolanaRuntime.setBreakPoint both hand the engine the path the forward
\* rule gives: 'home/home/' + the part after 'sdk/program/', the remote Rust
\* prefix + the part after 'rust-solana-1.59.0/', or 'home/' + the part
\* after 'code/'.
ForwardRuleInBoth ==
    /\ res.fn = "setBreakpoints" /\ arg.path # undefined /\ MarkersPresent(arg.path.val)
           => res.lldbPath = ForwardRule(arg.path.val)
    /\ res.fn = "setBreakPoint" /\ MarkersPresent(arg.path.val)
           => res.lldbPath = Str(ForwardRule(arg.path.val))

\* The editor path lies below the hardcoded project root.
UnderProjectPath(path) ==
    Len(path) > Len(projectPath) /\ SubSeq(path, 1, Len(projectPath)) = projectPath

\* C18: for every editor path below the project root (SDK, Rust sources or
\* project file), the forward rule followed by the reverse rule gives the
\* editor path back.
RoundTrip ==
    res.fn = "roundTrip" /\ arg.path # undefined /\ UnderProjectPath(arg.path.val)
        => res.sourcePath = arg.path.val

\* C19: a path without the expected marker makes the translation fail with
\* a PathTranslationError, and no path holding the text 'undefined' goes to
\* the engine or to the editor.
MissingMarkerIsAnError ==
    /\ res.fn = "setBreakpoints" =>
           IF arg.path = undefined \/ ~MarkersPresent(arg.path.val)
           THEN res.lldbPath = "PathTranslationError"
           ELSE ~Includes(res.lldbPath, "undefined")
    /\ res.fn = "setBreakPoint" =>
           IF ~MarkersPresent(arg.path.val)
           THEN res.lldbPath.type = "PathTranslationError"
           ELSE ~Includes(res.lldbPath.val, "undefined")
    /\ res.fn = "stackTrace" /\ res.type = "response" =>
           \A i \in DOMAIN res.stackFrames :
               ~Includes(res.stackFrames[i].source.path.val, "undefined")

\* C20: readMemory(offset, count) answers with the bytes at
\* offset..offset+count-1 of the buffer, as far as the buffer goes, and with
\* unreadableBytes = the number of requested bytes it could not read, which
\* is never negative.
ReadMemoryExact ==
    res.fn = "readMemory" =>
        LET bytes == Slice(memory, arg.offset, arg.offset + arg.count)
        IN  /\ res.data = Base64(bytes)
            /\ res.unreadableBytes = arg.count - Len(bytes)
            /\ res.unreadableBytes >= 0

(***************************************************************************)
(* Properties of the responses.                                            *)
(***************************************************************************)

\* The events of request r that wait in the timer queue.
QueuedEvents(r) == {i \in DOMAIN events : events[i].src = r}

\* C21: the response to continue, next, stepIn or stepOut is sent only once
\* the engine call of that request has returned, and the request gets one
\* stopped event ('breakpoint' for continue, 'step' for the steps), sent
\* after the engine call returned and emitted after the response.
ResponseAfterEngineCall ==
    \A r \in Reqs :
        req[r].kind \in StepKinds =>
            /\ req[r].resp # <<>> => r \notin inflight
            /\ Len(req[r].resp) <= 1
            /\ QueuedEvents(r) # {} => r \notin inflight
            /\ Cardinality(QueuedEvents(r)) <= 1
            /\ req[r].ev \notin {"none", "queued"} =>
                   /\ QueuedEvents(r) = {}
                   /\ req[r].resp # <<>>
                   /\ req[r].ev = IF req[r].kind = "continue" THEN "breakpoint" ELSE "step"

\* The UTF-8 bytes of a whole string.
RECURSIVE Utf8String(_)
Utf8String(str) == IF str = <<>> THEN <<>> ELSE Utf8(Head(str)) \o Utf8String(Tail(str))

\* C22: the buffer of request.length + 1 bytes holds the request's UTF-8
\* encoding and its terminator, and the string the engine reads from it is
\* the whole request, also when characters take more than one byte.
RequestCopiedWhole ==
    res.fn = "lldbRun" =>
        /\ Len(Utf8String(arg.request)) + 1 <= res.size
        /\ res.read = arg.request

\* C23: no request gets two responses, and a request whose handler has
\* returned (loadedSources and disassemble included) has got its response.
ExactlyOneResponse ==
    \A r \in Reqs :
        /\ Len(req[r].resp) <= 1
        /\ req[r].pc \in {"done", "refused"} => Len(req[r].resp) = 1

\* _isRunningLldb is set only while an lldbRun invocation is between taking
\* the bridge and giving it back.
FlagHeld ==
    isRunningLldb =>
        \E r \in Reqs : req[r].kind \in BridgeKinds /\ req[r].pc \in CriticalPcs

\* C24: with an engine that answers every call with a valid response, every
\* request submitted to lldbRun takes the bridge, sends its response and
\* completes, and _isRunningLldb is never left set with no call in flight.
LockLiveness ==
    /\ []FlagHeld
    /\ \A r \in Reqs :
           (req[r].kind \in BridgeKinds)
               ~> (req[r].pc = "done" /\ Len(req[r].resp) = 1)

\* C25: when clearBreakpoints(file) ran while a setBreakPoint(file, line)
\* was suspended on the engine, the breakpoint of that set call is not in
\* the store once the call has finished: a breakpoint requested before the
\* clear does not reappear after it.  (While ret names a clearBreakpoints
\* call, every set call now suspended was suspended when it ran.)
ClearNotUndoneStep ==
    \A c \in Calls :
        /\ ret.op = "clearBreakpoints"
        /\ calls[c].pc = "engine" /\ calls[c].path = ret.path
        /\ calls'[c].pc = "done"
        => \A f \in DOMAIN breakPoints' :
               \A i \in DOMAIN breakPoints'[f] : breakPoints'[f][i].id # calls'[c].id

ClearNotUndone == [][ClearNotUndoneStep]_vars

====
